---- MODULE Spec2Model ----
(***************************************************************************)
(* A model of the JARVIS traffic-inspector proxy: the router               *)
(* (config.GetTargetURL), the forwarder's director, the per-exchange       *)
(* handler (handleHTTPRequest) with its response recorder and pooled       *)
(* buffers, the asynchronous persistence tasks, the admission gate and     *)
(* the shutdown coordinator of the proxy command.                          *)
(*                                                                         *)
(* Strings are sequences of tokens.  A request path is a sequence of       *)
(* one-character tokens; an upstream URL is a sequence of the tokens a     *)
(* URL parser separates (scheme, "://", host, "/", path characters, "?",   *)
(* query).  Byte counts are scaled: one unit stands for 1 KiB as far as    *)
(* the recorder's first-chunk capture is concerned, and the watermark is   *)
(* a few units.                                                            *)
(*                                                                         *)
(* The source holds two revisions of the proxy.  The handler, the          *)
(* recorder, the director and the replayer follow                          *)
(* internal/proxy/http_proxy.go; the admission gate follows the revision   *)
(* of createHTTPHandler that takes a rate limiter, which is the only one   *)
(* that has a gate; the proxy command is the revision with the timeout     *)
(* flag.                                                                   *)
(***************************************************************************)
EXTENDS Integers, Sequences, FiniteSets, TLC

\* ------------------------------------------------------------------ bounds

\* Longest request path, in characters, the router is applied to.
MaxPathLen == 3
\* Most routes in a routing table drawn for the router and the director.
MaxRoutes == 2

\* Longest request path, in characters, the normalizer is applied to.
MaxNormLen == 4
\* Most calls of the normalizer on one set of templates.
MaxCalls == 2
\* Calls of generateID in one process lifetime.
MaxIdCalls == 3
\* Values of the four random bytes of an id, scaled.
NumRandom == 3

\* ----------------------------------------------------------------- strings

NoString == << >>

\* strings.HasPrefix(s, prefix)
HasPrefix(s, prefix) ==
    /\ Len(prefix) <= Len(s)
    /\ SubSeq(s, 1, Len(prefix)) = prefix

\* The position of the first tok in s, 0 when there is none.
IndexOf(s, tok) ==
    IF \E i \in 1..Len(s) : s[i] = tok
    THEN CHOOSE i \in 1..Len(s) : s[i] = tok /\ \A j \in 1..(i - 1) : s[j] # tok
    ELSE 0

Last(s) == s[Len(s)]

\* strings.HasSuffix(s, suffix)
HasSuffix(s, suffix) ==
    /\ Len(suffix) <= Len(s)
    /\ SubSeq(s, Len(s) - Len(suffix) + 1, Len(s)) = suffix

\* strings.TrimPrefix(s, prefix)
TrimPrefix(s, prefix) ==
    IF HasPrefix(s, prefix) THEN SubSeq(s, Len(prefix) + 1, Len(s)) ELSE s

\* strings.Split(s, sep) for a separator of one character: the pieces
\* between the separators, one piece more than there are separators.
RECURSIVE Split(_, _)
Split(s, sep) ==
    LET i == IndexOf(s, sep) IN
    IF i = 0 THEN <<s>>
    ELSE <<SubSeq(s, 1, i - 1)>> \o Split(SubSeq(s, i + 1, Len(s)), sep)

\* ------------------------------------------------------- path normalizer

\* The inner loop of NormalizePathForSpec that looks at the first part
\* only.
PartsMatchFirstOnly(pathParts, specPathParts) ==
    \/ HasPrefix(specPathParts[1], <<"{">>) /\ HasSuffix(specPathParts[1], <<"}">>)
    \/ specPathParts[1] = pathParts[1]

\* The inner loop of NormalizePathForSpec, on parts of equal number: a part
\* of the template that starts with "{" and ends with "}" matches always,
\* any other part must equal the path's.
PartsMatch(pathParts, specPathParts) ==
    \A i \in 1..Len(specPathParts) :
        LET part == specPathParts[i] IN
        \/ HasPrefix(part, <<"{">>) /\ HasSuffix(part, <<"}">>)
        \/ part = pathParts[i]

\* The outer loop of NormalizePathForSpec from the i-th key on; order is
\* the sequence in which range visits the keys of the specPaths map.
RECURSIVE RangeSpecPaths(_, _, _)
RangeSpecPaths(pathParts, order, i) ==
    IF i > Len(order) THEN [specPath |-> NoString, matched |-> FALSE]
    ELSE LET specPathParts == Split(TrimPrefix(order[i], <<"/">>), "/") IN
         IF Len(pathParts) = Len(specPathParts)
            /\ PartsMatch(pathParts, specPathParts)
         THEN [specPath |-> order[i], matched |-> TRUE]
         ELSE RangeSpecPaths(pathParts, order, i + 1)

\* validator.NormalizePathForSpec(path, specPaths), for one order of
\* iteration over specPaths.
NormalizePathForSpec(path, order) ==
    RangeSpecPaths(Split(TrimPrefix(path, <<"/">>), "/"), order, 1)

\* ------------------------------------------------------------------ router

\* Config.GetTargetURL with a mutation: the longest matching prefix wins.
GetTargetURLLongest(c, path) ==
    LET hits == { i \in 1..Len(c.TargetRoutes) :
                    HasPrefix(path, c.TargetRoutes[i].PathPrefix) }
    IN IF hits = {} THEN c.HTTPTargetURL
       ELSE LET best == CHOOSE i \in hits :
                          \A j \in hits :
                            \/ Len(c.TargetRoutes[j].PathPrefix)
                                 < Len(c.TargetRoutes[i].PathPrefix)
                            \/ (Len(c.TargetRoutes[j].PathPrefix)
                                 = Len(c.TargetRoutes[i].PathPrefix) /\ i <= j)
            IN c.TargetRoutes[best].TargetURL

RECURSIVE ScanRoutes(_, _, _)
\* The loop of GetTargetURL from route i on: the first route whose prefix
\* matches returns; past the last route the default is returned.
ScanRoutes(c, path, i) ==
    IF i > Len(c.TargetRoutes) THEN c.HTTPTargetURL
    ELSE IF HasPrefix(path, c.TargetRoutes[i].PathPrefix)
         THEN c.TargetRoutes[i].TargetURL
         ELSE ScanRoutes(c, path, i + 1)

GetTargetURL(c, path) == ScanRoutes(c, path, 1)

\* ------------------------------------------------------------ url.Parse

CtlChar == "\\x7f"
Schemes == {"http", "https"}

\* The tokens of s before the first "?" and the tokens after it.
BeforeQuery(s) ==
    IF IndexOf(s, "?") = 0 THEN s ELSE SubSeq(s, 1, IndexOf(s, "?") - 1)
AfterQuery(s) ==
    IF IndexOf(s, "?") = 0 THEN NoString
    ELSE SubSeq(s, IndexOf(s, "?") + 1, Len(s))

\* url.Parse as the director uses it: a string with a control character is
\* rejected; otherwise the query is cut at the first "?", a leading
\* scheme "://" introduces the authority, which ends at the first "/",
\* and the rest is the path.  A string without a scheme is all path.
ParseURL(s) ==
    IF \E i \in 1..Len(s) : s[i] = CtlChar
    THEN [ok |-> FALSE, Scheme |-> NoString, Host |-> NoString,
          Path |-> NoString, RawQuery |-> NoString]
    ELSE LET rest == BeforeQuery(s)
             q    == AfterQuery(s)
         IN IF Len(rest) >= 2 /\ rest[1] \in Schemes /\ rest[2] = "://"
            THEN LET auth == SubSeq(rest, 3, Len(rest))
                     cut  == IndexOf(auth, "/")
                 IN [ok |-> TRUE,
                     Scheme |-> <<rest[1]>>,
                     Host |-> IF cut = 0 THEN auth ELSE SubSeq(auth, 1, cut - 1),
                     Path |-> IF cut = 0 THEN NoString
                              ELSE SubSeq(auth, cut, Len(auth)),
                     RawQuery |-> q]
            ELSE [ok |-> TRUE, Scheme |-> NoString, Host |-> NoString,
                  Path |-> rest, RawQuery |-> q]

\* ---------------------------------------------------------------- director

\* An inbound request as the server hands it to the handler: the URL of an
\* origin-form request line has no scheme and no host.
InboundRequest(path, query, host, ip, tls, xff) ==
    [Path |-> path, RawQuery |-> query, Scheme |-> NoString,
     URLHost |-> NoString, Host |-> host, RemoteIP |-> ip, TLS |-> tls,
     XFF |-> xff, XFHost |-> NoString, XFProto |-> NoString, rewritten |-> FALSE]

\* The X-Forwarded-For value the director leaves: with a peer address
\* that net.SplitHostPort accepts, prior + ", " + ip, or ip alone without a
\* prior value; the header is untouched otherwise.  The value is the
\* sequence of its comma-separated elements.
ForwardedFor(req) ==
    IF req.RemoteIP = NoString THEN req.XFF
    ELSE IF req.XFF # NoString THEN req.XFF \o req.RemoteIP
         ELSE req.RemoteIP

\* The director with a mutation: the target's own path and query are kept.
DirectorKeepsTargetPath(c, req) ==
    LET target == ParseURL(GetTargetURL(c, req.Path))
    IN IF ~target.ok THEN req
       ELSE [req EXCEPT !.Scheme = target.Scheme, !.URLHost = target.Host,
                        !.Path = target.Path, !.RawQuery = target.RawQuery,
                        !.Host = target.Host, !.XFF = ForwardedFor(req),
                        !.XFHost = req.Host,
                        !.XFProto = IF req.TLS THEN <<"https">> ELSE <<"http">>,
                        !.rewritten = TRUE]

\* The director with a mutation: X-Forwarded-Host is read after the Host
\* was overwritten with the target's.
DirectorForwardsTargetHost(c, req) ==
    LET target == ParseURL(GetTargetURL(c, req.Path))
    IN IF ~target.ok THEN req
       ELSE [req EXCEPT !.Scheme = target.Scheme, !.URLHost = target.Host,
                        !.Host = target.Host, !.XFF = ForwardedFor(req),
                        !.XFHost = target.Host,
                        !.XFProto = IF req.TLS THEN <<"https">> ELSE <<"http">>,
                        !.rewritten = TRUE]

\* The director of StartHTTPProxy and of StartHTTPSProxy (the two closures
\* are the same code): resolve and parse the target; on a parse error
\* return with the request untouched; else copy the target into the URL,
\* restore the original path and raw query, set Host to the target's and
\* set the forwarding headers.
Director(c, req) ==
    LET target == ParseURL(GetTargetURL(c, req.Path))
    IN IF ~target.ok THEN req
       ELSE LET originalPath  == req.Path
                originalQuery == req.RawQuery
                originalHost  == req.Host
                copied == [req EXCEPT !.Scheme = target.Scheme,
                                      !.URLHost = target.Host,
                                      !.Path = target.Path,
                                      !.RawQuery = target.RawQuery]
            IN [copied EXCEPT !.Path = originalPath,
                              !.RawQuery = originalQuery,
                              !.Host = target.Host,
                              !.XFF = ForwardedFor(req),
                              !.XFHost = originalHost,
                              !.XFProto = IF req.TLS THEN <<"https">>
                                          ELSE <<"http">>,
                              !.rewritten = TRUE]

\* ----------------------------------------------------- program constants

\* streamThreshold (1 MiB), scaled to units.
streamThreshold == 3
\* maxRequestSize (32 MiB), scaled to units.
maxRequestSize == 5
\* The recorder's first-chunk capture (1024 bytes) when it does not buffer,
\* scaled to units.
firstChunkCap == 1
\* The statuses the proxy itself answers with.
StatusOK == 200
StatusBadRequest == 400
StatusNotFound == 404
StatusRequestEntityTooLarge == 413
StatusTooManyRequests == 429
StatusInternalServerError == 500
StatusBadGateway == 502

\* ------------------------------------------------------------ more bounds

\* Exchanges the listeners accept in one run.
NumExchanges == 2
\* cfg.RateBurst: the size of a limiter's bucket.
RateBurst == 1
\* Tokens the limiters regain in one run (time passing at cfg.RateLimit).
MaxRefills == 1
\* Longest response body an upstream sends, in units.
MaxRespLen == 6
\* The forwarder's copy buffer: the longest chunk of one Write, in units.
ChunkLen == 2

\* Exchanges the listeners accept in one run of the replaying proxy.
ReplayExchanges == 3

Exchanges == 1..(IF ReplayExchanges > NumExchanges THEN ReplayExchanges
                 ELSE NumExchanges)
BufIds == 1..NumExchanges
Listeners == {"http", "https"}

\* ------------------------------------------------------------------- state

VARIABLES
    cfg,        \* *config.Config, frozen after load
    tokens,     \* tokens left in each listener's rate.Limiter
    refills,    \* tokens regained so far
    ex,         \* per exchange: the handler's position and locals
    bufs,       \* the *bytes.Buffer objects of the response pools
    pool,       \* per listener: the buffers lying in its responseBufPool
    task,       \* per exchange: its persistence goroutine
    store,      \* the rows of traffic_records, in insertion order
    rowOrder,   \* the order in which the store returns rows of equal rank
    stmtClosed, \* insertStmt.Close() has run
    dbClosed,   \* database.Close() has run
    lst,        \* per listener: down, serving or closed
    starter,    \* per listener: the goroutine of Run that starts it
    servers,    \* Run's servers slice
    uiPc,       \* the UI goroutine of Run
    mainPc,     \* Run itself
    shut,       \* the servers Run has called Shutdown on, with their progress
    deadline,   \* the 30 s shutdownCtx has expired
    ctx,        \* Run's context: its kind, whether it is done, SIGINT seen
    clientAuth, \* tlsConfig.ClientAuth of the HTTPS server
    clock,      \* a logical clock: time.Now()
    dreq,       \* router/director runs: the inbound request
    dout,       \* router/director runs: the outbound request
    norm,       \* normalizer runs: the inputs and the calls made on them
    gen         \* generateID runs: per call its position and locals

vars == <<cfg, rowOrder, tokens, refills, ex, bufs, pool, task, store, stmtClosed,
          dbClosed, lst, starter, servers, uiPc, mainPc, shut, deadline,
          ctx, clientAuth, clock, dreq, dout, norm, gen>>

sysVars == <<ctx, clientAuth>>
procVars == <<lst, starter, servers, uiPc, mainPc, shut, deadline,
              stmtClosed, dbClosed, sysVars>>
dirVars == <<dreq, dout, norm, gen>>

\* ----------------------------------------------------------- initial state

\* The requests clients send.  Content-Length is in units: none, below the
\* stream threshold, above it, above maxRequestSize.  The server reads
\* exactly Content-Length units of a body whose length is declared.
Request(m, p, cl) ==
    [Method |-> m, Path |-> p, ContentLength |-> cl, BodyLen |-> cl]
\* A request with a chunked body of n units: its length is not declared
\* and the server sets ContentLength to -1.
ChunkedRequest(m, p, n) ==
    [Method |-> m, Path |-> p, ContentLength |-> -1, BodyLen |-> n]
Requests ==
    { Request("GET", <<"/", "a">>, 0),
      Request("POST", <<"/", "a">>, streamThreshold - 1),
      Request("POST", <<"/", "a">>, streamThreshold + 1),
      Request("POST", <<"/", "a">>, maxRequestSize + 1),
      Request("GET", <<"/", "b">>, 0) }
\* The requests of the recording runs: without a body, with a large one.
RecordRequests ==
    { Request("GET", <<"/", "a">>, 0),
      Request("POST", <<"/", "a">>, streamThreshold + 1) }
\* The requests of the size-limit runs: a body of exactly maxRequestSize
\* and one above it with the length declared, and a chunked body above it.
LimitRequests ==
    { Request("POST", <<"/", "a">>, maxRequestSize),
      Request("POST", <<"/", "a">>, maxRequestSize + 1),
      ChunkedRequest("POST", <<"/", "a">>, maxRequestSize + 1) }
\* The requests of the upstream-resolution runs: for a route with a
\* well-formed upstream, for the route whose upstream url.Parse rejects,
\* and for a path no route matches.
UpstreamRequests ==
    { Request("GET", <<"/", "a">>, 0), Request("GET", <<"/", "b">>, 0),
      Request("GET", <<"/", "c">>, 0) }
\* The requests of the replay runs.
ReplayRequests ==
    { Request("GET", <<"/", "a">>, 0), Request("GET", <<"/", "b">>, 0) }
\* The forwarder's round trip ends in an error instead of a status.
TransportError == "error"
\* What a round trip ends in: the upstream's status, or an error.
Outcomes == {"201", TransportError}
StatusOf(outcome) == IF outcome = "201" THEN 201 ELSE 0
\* The lengths of the response bodies upstreams send: none, one chunk,
\* the longest.
Responses == {0, ChunkLen, MaxRespLen}

\* The routing table of the exchange runs: /a is routed to a well-formed
\* upstream, /b to one that url.Parse rejects; the default is well formed.
ServeRoutes ==
    << [PathPrefix |-> <<"/", "a">>, TargetURL |-> <<"http", "://", "u1">>],
       [PathPrefix |-> <<"/", "b">>, TargetURL |-> <<"http", "://", CtlChar>>] >>
ServeDefault == <<"http", "://", "u2">>

\* The configurations validateConfig accepts: RecordingMode and ReplayMode
\* are never both set.  ValidateRequests and ValidateResponses stand for
\* "the validator was loaded and the flag is set".
Configs ==
    { c \in [RecordingMode : BOOLEAN, ReplayMode : BOOLEAN,
             TLSEnabled : BOOLEAN, ValidateRequests : BOOLEAN,
             ValidateResponses : BOOLEAN, ContinueOnValidation : BOOLEAN,
             ClientAuth : {FALSE}, ClientCACert : {""},
             TargetRoutes : {ServeRoutes}, HTTPTargetURL : {ServeDefault}] :
        ~(c.RecordingMode /\ c.ReplayMode) }

\* The values of tls.client_ca_cert: not set, a file that cannot be read,
\* a file that holds no PEM certificate, a CA bundle.
CAPaths == {"", "unreadable.pem", "garbage.pem", "ca.pem"}

\* The configurations of the start-up runs: passthrough, with and without
\* TLS, with and without client authentication, every client CA path.
\* validateConfig asks nothing of ClientAuth and ClientCACert.
StartConfigs ==
    { c \in [RecordingMode : {FALSE}, ReplayMode : {FALSE},
             TLSEnabled : BOOLEAN, ValidateRequests : {FALSE},
             ValidateResponses : {FALSE}, ContinueOnValidation : {FALSE},
             ClientAuth : BOOLEAN, ClientCACert : CAPaths,
             TargetRoutes : {ServeRoutes}, HTTPTargetURL : {ServeDefault}] :
        TRUE }

\* Recording without validation.
RecordConfigs ==
    { c \in Configs : /\ c.RecordingMode
                      /\ ~c.ValidateRequests /\ ~c.ValidateResponses
                      /\ ~c.ContinueOnValidation }

NoRecorder ==
    [on |-> FALSE, statusCode |-> 0, header |-> {}, buf |-> 0,
     streamMode |-> FALSE, bytesWritten |-> 0]

NoRequest == Request("", NoString, 0)

IdleExchange ==
    [pc |-> "idle", listener |-> "none", req |-> NoRequest,
     startTime |-> 0, steps |-> << >>,
     status |-> 0, wHeader |-> {}, clientHeaders |-> {}, clientBody |-> << >>,
     respLen |-> 0,
     isLargeBody |-> FALSE, upstream |-> FALSE, replayed |-> FALSE,
     fromStore |-> FALSE, rec |-> NoRecorder, validatedLen |-> -1,
     denied |-> FALSE, reqInvalid |-> FALSE, respInvalid |-> FALSE,
     captured |-> -1, upBody |-> -1, row |-> 0]

NoTask ==
    [state |-> "none", status |-> 0, headers |-> {}, bodyKind |-> "none",
     buf |-> 0, len |-> 0, duration |-> 0]

\* A record a previous recording run left in the store.
SeedRecord ==
    [id |-> 0, timestamp |-> 0, protocol |-> "HTTP", method |-> "GET",
     url |-> <<"/", "a">>, status |-> 200, headers |-> {<<"X-Seed", 0>>},
     body |-> <<0, 0>>, duration |-> 0, owner |-> 0]

\* A row of traffic_records that an earlier run left: the time it was
\* written, its key, and the response it holds.
Row(ts, key, resp) ==
    [id |-> 0, timestamp |-> ts, protocol |-> key[1], method |-> key[2],
     url |-> key[3], status |-> resp[1], headers |-> {<<"X-Seed", 0>>},
     body |-> resp[2], duration |-> 0, owner |-> 0]

\* Latest timestamp of the rows of a replay run.
MaxStamp == 2
\* Most rows in the store of a replay run.
MaxRows == 2

\* The key most rows of a replay run are stored under, and keys that
\* differ from it in the protocol, in the method, in the url.
RowKey == <<"HTTP", "GET", <<"/", "a">>>>
OtherKeys ==
    { <<"WS", "GET", <<"/", "a">>>>, <<"HTTP", "POST", <<"/", "a">>>>,
      <<"HTTP", "GET", <<"/", "b">>>> }
\* The responses rows hold: status and body.
RowResponses == { <<200, <<11>>>>, <<503, <<12, 12>>>> }

\* The rows of a replay run: under RowKey every timestamp and response,
\* under each other key one row, which is as new as any.
ReplayRowSet ==
    { Row(ts, RowKey, r) : ts \in 1..MaxStamp, r \in RowResponses }
      \cup { Row(MaxStamp, k, <<204, <<13>>>>) : k \in OtherKeys }

\* The stores a replay run starts on: rows in any order of insertion.
ReplayStores == UNION { [1..n -> ReplayRowSet] : n \in 0..MaxRows }

\* Replay without validation, on the HTTP listener and the TLS listener.
ReplayConfigs ==
    { c \in Configs : /\ c.ReplayMode /\ c.TLSEnabled
                      /\ ~c.ValidateRequests /\ ~c.ValidateResponses
                      /\ ~c.ContinueOnValidation }

\* Passthrough and recording on the HTTP listener, without validation,
\* with the default upstream set or left empty (validateConfig accepts an
\* empty default when there is a route).
UpstreamConfigs ==
    { c \in [RecordingMode : BOOLEAN, ReplayMode : {FALSE},
             TLSEnabled : {FALSE}, ValidateRequests : {FALSE},
             ValidateResponses : {FALSE}, ContinueOnValidation : {FALSE},
             TargetRoutes : {ServeRoutes},
             HTTPTargetURL : {ServeDefault, NoString}] : TRUE }

\* signal.NotifyContext(..., os.Interrupt, os.Kill), and
\* context.WithTimeout(..., timeout minutes) of a run with --timeout.
SignalContext == [kind |-> "signal", done |-> FALSE, sigint |-> FALSE]
TimeoutContext == [kind |-> "timer", done |-> FALSE, sigint |-> FALSE]

\* tls.ClientAuthType: the zero value, and the one StartHTTPSProxy sets.
NoClientCert == "NoClientCert"
RequireAndVerifyClientCert == "RequireAndVerifyClientCert"

\* Run has loaded the configuration and opened the store; no goroutine
\* has run yet.
ProcStart ==
    /\ lst = [l \in Listeners |-> "down"]
    /\ starter = [l \in Listeners |-> [pc |-> "init", seen |-> << >>]]
    /\ servers = << >>
    /\ uiPc = "init"
    /\ mainPc = "wait"
    /\ shut = [l \in Listeners \cup {"ui"} |-> "no"]
    /\ deadline = FALSE
    /\ stmtClosed = FALSE
    /\ dbClosed = FALSE
    /\ clientAuth = NoClientCert

\* The start of a run without --timeout.
ProcInit ==
    /\ ProcStart
    /\ ctx = SignalContext

ExchangesIdle ==
    /\ tokens = [l \in Listeners |-> RateBurst]
    /\ refills = 0
    /\ ex = [e \in Exchanges |-> IdleExchange]
    /\ bufs = [b \in BufIds |-> [arr |-> << >>, len |-> 0, fresh |-> TRUE]]
    /\ pool = [l \in Listeners |-> {}]
    /\ task = [e \in Exchanges |-> NoTask]
    /\ clock = 1

\* No exchange yet; where no two rows of the store tie, the order of ties
\* is immaterial.
ExchangeInit ==
    /\ rowOrder = "first"
    /\ ExchangesIdle

\* The process once its listeners serve: the start-up goroutines are done
\* and Run waits for the shutdown trigger.
ProcServing ==
    /\ lst = [l \in Listeners |->
                IF l = "http" \/ cfg.TLSEnabled THEN "serving" ELSE "down"]
    /\ starter = [l \in Listeners |->
                    [pc |-> IF l = "http" \/ cfg.TLSEnabled THEN "done"
                            ELSE "init", seen |-> << >>]]
    /\ servers = IF cfg.TLSEnabled THEN <<"http", "https">> ELSE <<"http">>
    /\ uiPc = "serving"
    /\ mainPc = "wait"
    /\ shut = [l \in Listeners \cup {"ui"} |-> "no"]
    /\ deadline = FALSE
    /\ stmtClosed = FALSE
    /\ dbClosed = FALSE
    /\ ctx = SignalContext
    /\ clientAuth = NoClientCert

NoResult ==
    [resolved |-> FALSE, target |-> NoString, directed |-> FALSE,
     req |-> NoRequest]

\* No input for the normalizer, no call.
NormIdle ==
    [path |-> NoString, specPaths |-> {}, at |-> 1, with |-> NoString,
     calls |-> << >>]

\* A call of generateID that has not begun: its idCounter is declared
\* inside the function and starts at zero in every call.
IdleCall == [pc |-> "idle", idCounter |-> 0, id |-> 0, buf |-> 0]

IdCalls == 1..MaxIdCalls

GenIdle == [k \in IdCalls |-> IdleCall]

DirIdle ==
    /\ dreq = NoRequest
    /\ dout = NoResult
    /\ norm = NormIdle
    /\ gen = GenIdle

\* The serving proxy, in any configuration.
Init ==
    /\ cfg \in Configs
    /\ store \in (IF cfg.ReplayMode THEN { << >>, <<SeedRecord>> } ELSE { << >> })
    /\ ExchangeInit
    /\ ProcServing
    /\ DirIdle

\* ------------------------------------------------------------ small helpers

Max(a, b) == IF a >= b THEN a ELSE b
Min(a, b) == IF a <= b THEN a ELSE b

\* n bytes of exchange e's response: every byte carries the exchange.
Bytes(e, n) == [i \in 1..n |-> e]

\* fmt.Sprintf("<streaming-response-size:%d>", n): the tag, then the number.
SentinelTag == -1
Sentinel(n) == <<SentinelTag, n>>
IsSentinel(b) == Len(b) = 2 /\ b[1] = SentinelTag /\ b[2] \in Nat

\* The plain-text body http.Error writes with a status.
ErrorBody(code) == <<-code>>

ValidationMarker(phase) == <<"X-API-Validation-Error", phase>>
\* http.Header.Set: the values the map had under the key are replaced.
HeaderSet(h, kv) == { p \in h : p[1] # kv[1] } \cup {kv}
UpstreamHeader(e) == <<"X-Upstream", e>>

Alive == mainPc # "exited"

\* The handler of e has been entered and has not returned.
InFlight(e) == ex[e].pc \notin {"idle", "done"}

\* (*bytes.Buffer).Write: the bytes go to the backing array behind the
\* current length; what lay there before is overwritten.
BufWrite(b, bytes) ==
    [arr |-> [i \in 1..Max(Len(b.arr), b.len + Len(bytes)) |->
                IF i > b.len /\ i <= b.len + Len(bytes)
                THEN bytes[i - b.len] ELSE b.arr[i]],
     len |-> b.len + Len(bytes),
     fresh |-> FALSE]

\* (*bytes.Buffer).Reset: the length is zero, the array is kept.
BufReset(b) == [arr |-> b.arr, len |-> 0, fresh |-> FALSE]

\* responseRecorder.Header: a recorder whose own map is empty first copies
\* the underlying writer's headers into it.
RecorderHeader(x) == IF x.rec.header = {} THEN x.wHeader ELSE x.rec.header

\* http.Error and the other direct answers of the handler: status and body
\* go to the client and the handler returns.
Answer(x, code, step) ==
    [x EXCEPT !.pc = "done", !.status = code, !.clientHeaders = x.wHeader,
              !.clientBody = ErrorBody(code),
              !.steps = IF step = "" THEN @ ELSE Append(@, step)]

\* ------------------------------------------------------- admission gate

\* The handler closure with a mutation: the denied request is answered 429
\* but the closure does not return.
AdmitNoReturn(e, l, r) ==
    /\ Alive
    /\ ex[e].pc = "idle"
    /\ \A d \in Exchanges : d < e => ex[d].pc # "idle"
    /\ lst[l] = "serving"
    /\ clock' = clock + 1
    /\ tokens' = [tokens EXCEPT ![l] = Max(@ - 1, 0)]
    /\ ex' = [ex EXCEPT ![e] =
                [@ EXCEPT !.pc = "handle", !.listener = l,
                          !.req = r,
                          !.status = IF tokens[l] > 0 THEN 0
                                     ELSE StatusTooManyRequests,
                          !.denied = (tokens[l] = 0),
                          !.startTime = clock,
                          !.steps = <<"admission">>]]
    /\ UNCHANGED <<cfg, rowOrder, refills, bufs, pool, task, store>>
    /\ UNCHANGED procVars /\ UNCHANGED dirVars

\* The closure createHTTPHandler returns, entered by listener l's server
\* with a request: limiter.Allow() takes a token if there is one; without
\* one the request is answered 429 and the closure returns.  With a token
\* handleHTTPRequest is entered and reads the time of receipt.
Admit(e, l, r) ==
    /\ Alive
    /\ ex[e].pc = "idle"
    /\ \A d \in Exchanges : d < e => ex[d].pc # "idle"
    /\ lst[l] = "serving"
    /\ clock' = clock + 1
    /\ LET x == [ex[e] EXCEPT !.listener = l,
                              !.req = r,
                              !.startTime = clock,
                              !.steps = <<"admission">>]
       IN IF tokens[l] > 0
          THEN /\ tokens' = [tokens EXCEPT ![l] = @ - 1]
               /\ ex' = [ex EXCEPT ![e] = [x EXCEPT !.pc = "handle"]]
          ELSE /\ tokens' = tokens
               /\ ex' = [ex EXCEPT ![e] =
                           Answer([x EXCEPT !.denied = TRUE],
                                  StatusTooManyRequests, "")]
    /\ UNCHANGED <<cfg, rowOrder, refills, bufs, pool, task, store>>
    /\ UNCHANGED procVars /\ UNCHANGED dirVars

\* Time passes: a limiter regains a token, up to its burst.
Refill(l) ==
    /\ Alive
    /\ refills < MaxRefills
    /\ lst[l] = "serving"
    /\ tokens[l] < RateBurst
    /\ tokens' = [tokens EXCEPT ![l] = @ + 1]
    /\ refills' = refills + 1
    /\ UNCHANGED <<cfg, rowOrder, ex, bufs, pool, task, store, clock>>
    /\ UNCHANGED procVars /\ UNCHANGED dirVars

\* ------------------------------------------------------ handleHTTPRequest

\* The request body is read into memory: recording or request validation
\* wants it and the request announces one.
WantsBody(x) ==
    (cfg.RecordingMode \/ cfg.ValidateRequests) /\ x.req.ContentLength # 0

\* isLargeBody: the announced length is above the stream threshold.
IsLargeBody(x) == WantsBody(x) /\ x.req.ContentLength > streamThreshold

\* len(reqBodyBytes) after the body capture: a body that is wanted and is
\* not large is read through io.LimitReader(r.Body, maxRequestSize) and
\* r.Body is replaced by what was read; -1 when the body is not read.
CapturedLen(x) ==
    IF WantsBody(x) /\ ~IsLargeBody(x)
    THEN Min(x.req.BodyLen, maxRequestSize) ELSE -1

\* The request part of the handler with a mutation: a failed validation
\* is answered 400 but the handler does not return.
AfterRequestNoReturn(x, ok) ==
    LET large == IsLargeBody(x)
        validates == cfg.ValidateRequests /\ ~large
        y  == [x EXCEPT !.isLargeBody = large,
                        !.captured = CapturedLen(x),
                        !.reqInvalid = validates /\ ~ok,
                        !.steps = IF validates
                                  THEN Append(@, "validate_request") ELSE @]
    IN IF validates /\ ~ok
       THEN IF ~cfg.ContinueOnValidation
            THEN [y EXCEPT !.status = StatusBadRequest, !.pc = "mode"]
            ELSE [y EXCEPT !.wHeader = HeaderSet(@, ValidationMarker("request")),
                           !.pc = "mode"]
       ELSE [y EXCEPT !.pc = "mode"]

\* The exchange after the request part of the handler, up to the mode
\* switch: body capture, then request validation with outcome ok.
AfterRequest(x, ok) ==
    LET large == IsLargeBody(x)
        s1 == IF WantsBody(x) /\ ~large THEN Append(x.steps, "capture")
              ELSE x.steps
        validates == cfg.ValidateRequests /\ ~large
        s2 == IF validates THEN Append(s1, "validate_request") ELSE s1
        y  == [x EXCEPT !.isLargeBody = large, !.steps = s2,
                        !.captured = CapturedLen(x),
                        !.reqInvalid = validates /\ ~ok]
    IN IF validates /\ ~ok
       THEN IF ~cfg.ContinueOnValidation
            THEN Answer(y, StatusBadRequest, "")
            ELSE [y EXCEPT !.wHeader = HeaderSet(@, ValidationMarker("request")),
                           !.pc = "mode"]
       ELSE [y EXCEPT !.pc = "mode"]

\* The recorder the handler interposes, on buffer b.
NewRecorder(x, b) ==
    [on |-> TRUE, statusCode |-> StatusOK, header |-> {}, buf |-> b,
     streamMode |-> x.isLargeBody, bytesWritten |-> 0]

\* handleHTTPRequest from its entry to the call of the forwarder or of the
\* replayer: the size limit, the capture of the request body, request
\* validation (ok is the validator's verdict), the mode switch, and, when
\* recording or response validation is on, the recorder on a buffer b that
\* responseBufPool.Get returns (one lying in the pool, or a new one).
HandleRequest(e, ok, b) ==
    /\ Alive
    /\ ex[e].pc = "handle"
    /\ LET x == ex[e]
           l == x.listener
       IN IF x.req.ContentLength > maxRequestSize
          THEN /\ ok /\ b = 0
               /\ ex' = [ex EXCEPT ![e] =
                           Answer(x, StatusRequestEntityTooLarge, "")]
               /\ UNCHANGED <<bufs, pool>>
          ELSE LET y == AfterRequest(x, ok)
                   validates == cfg.ValidateRequests /\ ~IsLargeBody(x)
               IN /\ (~validates => ok)
                  /\ IF y.pc = "done" \/ cfg.ReplayMode
                     THEN /\ b = 0
                          /\ ex' = [ex EXCEPT ![e] =
                                      IF y.pc = "done" THEN y
                                      ELSE [y EXCEPT !.pc = "replay"]]
                          /\ UNCHANGED <<bufs, pool>>
                     ELSE IF cfg.RecordingMode \/ cfg.ValidateResponses
                          THEN /\ b \in BufIds
                               /\ b \in pool[l] \/ bufs[b].fresh
                               /\ \A c \in BufIds :
                                     bufs[c].fresh /\ bufs[b].fresh => b <= c
                               /\ bufs' = [bufs EXCEPT ![b] = BufReset(@)]
                               /\ pool' = [pool EXCEPT ![l] = @ \ {b}]
                               /\ ex' = [ex EXCEPT ![e] =
                                           [y EXCEPT !.pc = "forward",
                                                     !.rec = NewRecorder(y, b)]]
                          ELSE /\ b = 0
                               /\ ex' = [ex EXCEPT ![e] =
                                           [y EXCEPT !.pc = "forward"]]
                               /\ UNCHANGED <<bufs, pool>>
    /\ UNCHANGED <<cfg, rowOrder, tokens, refills, task, store, clock>>
    /\ UNCHANGED procVars /\ UNCHANGED dirVars

\* The request of exchange x as the director sees it.
Inbound(x) ==
    InboundRequest(x.req.Path, NoString, <<"proxy">>, <<"peer">>,
                   x.listener = "https", NoString)

\* rw.Header() of the handler's writer, with the headers hs added: the
\* recorder's map when the recorder is interposed, else the client's.
AddHeaders(x, hs) ==
    IF x.rec.on
    THEN [x EXCEPT !.rec.header = RecorderHeader(x) \cup hs]
    ELSE [x EXCEPT !.wHeader = @ \cup hs]

\* WriteHeader on the handler's writer: the recorder captures the status
\* and copies its headers to the client's writer before it passes the
\* status on; the client's writer sends status and headers.
WriteHeader(x, code) ==
    IF x.rec.on
    THEN [x EXCEPT !.rec.statusCode = code,
                   !.wHeader = @ \cup x.rec.header,
                   !.status = code,
                   !.clientHeaders = x.wHeader \cup x.rec.header,
                   !.steps = Append(@, "write")]
    ELSE [x EXCEPT !.status = code, !.clientHeaders = x.wHeader,
                   !.steps = Append(@, "write")]

\* proxy.ServeHTTP up to the response header: the director rewrites the
\* request; a request left without a scheme cannot be sent, and a request
\* that is sent reaches the upstream, which answers (outcome is its
\* status) or fails (outcome TransportError).  A failure goes to the ErrorHandler,
\* which writes 502; an answer's headers and status go to the writer, and
\* its body, len units long, is to be copied.
Forward(e, outcome, len) ==
    /\ Alive
    /\ ex[e].pc = "forward"
    /\ LET x    == [ex[e] EXCEPT !.steps = Append(@, "forward")]
           out  == Director(cfg, Inbound(x))
           sent == out.Scheme # NoString
           y    == [x EXCEPT !.upstream = sent,
                             !.upBody = IF ~sent THEN -1
                                        ELSE IF x.captured >= 0 THEN x.captured
                                             ELSE x.req.BodyLen]
       IN /\ (~sent => outcome = TransportError)
          /\ (outcome = TransportError => len = 0)
          /\ ex' = [ex EXCEPT ![e] =
                      IF outcome = TransportError
                      THEN [WriteHeader(y, StatusBadGateway) EXCEPT !.pc = "finish"]
                      ELSE [WriteHeader(AddHeaders(y, {UpstreamHeader(e)}),
                                        StatusOf(outcome))
                              EXCEPT !.pc = "writing", !.respLen = len]]
    /\ UNCHANGED <<cfg, rowOrder, tokens, refills, bufs, pool, task, store, clock>>
    /\ UNCHANGED procVars /\ UNCHANGED dirVars

\* responseRecorder.Write of chunk's length on buffer b: what the buffer
\* holds afterwards.  In stream mode, or with the buffer at the watermark,
\* only a first chunk of at most firstChunkCap goes into an empty buffer;
\* otherwise the whole chunk is buffered.
RecorderBuffer(r, b, chunk) ==
    IF r.streamMode \/ b.len >= streamThreshold
    THEN IF b.len = 0 /\ Len(chunk) > 0
         THEN BufWrite(b, SubSeq(chunk, 1, Min(Len(chunk), firstChunkCap)))
         ELSE b
    ELSE BufWrite(b, chunk)

\* One Write of the forwarder's body copy, a chunk of what is left of the
\* upstream's body: through the recorder when it is interposed, and in any
\* case to the client.
WriteChunk(e) ==
    /\ Alive
    /\ ex[e].pc = "writing"
    /\ Len(ex[e].clientBody) < ex[e].respLen
    /\ LET x == ex[e]
           n == Min(ChunkLen, x.respLen - Len(x.clientBody))
           chunk == Bytes(e, n)
       IN /\ ex' = [ex EXCEPT ![e] =
                      [x EXCEPT !.clientBody = @ \o chunk,
                                !.rec.bytesWritten =
                                    IF x.rec.on THEN @ + n ELSE @]]
          /\ bufs' = IF x.rec.on
                     THEN [bufs EXCEPT ![x.rec.buf] =
                             RecorderBuffer(x.rec, @, chunk)]
                     ELSE bufs
    /\ UNCHANGED <<cfg, rowOrder, tokens, refills, pool, task, store, clock>>
    /\ UNCHANGED procVars /\ UNCHANGED dirVars

\* The response body the handler hands to its persistence task: in stream
\* mode with more than the watermark in the buffer, the sentinel; else
\* recorder.body.Bytes(), a slice of the buffer's array that is not copied.
RecordedBody(r, b) ==
    IF r.streamMode /\ b.len > streamThreshold
    THEN [bodyKind |-> "sentinel", buf |-> 0, len |-> b.len]
    ELSE [bodyKind |-> "slice", buf |-> r.buf, len |-> b.len]

\* The end of the handler with a mutation: the persistence task is
\* started whenever a recorder was interposed.
FinishRecorderRecords(e, ok) ==
    /\ Alive
    /\ \/ ex[e].pc = "finish"
       \/ ex[e].pc = "writing" /\ Len(ex[e].clientBody) = ex[e].respLen
    /\ LET x == ex[e]
           validates == cfg.ValidateResponses /\ x.rec.on /\ ~x.rec.streamMode
           y == IF validates
                THEN [x EXCEPT !.validatedLen = bufs[x.rec.buf].len,
                               !.respInvalid = ~ok,
                               !.steps = Append(@, "validate_response"),
                               !.rec.header =
                                   IF ok THEN @
                                   ELSE HeaderSet(RecorderHeader(x),
                                                  ValidationMarker("response"))]
                ELSE x
           records == y.rec.on
           body == RecordedBody(y.rec, bufs[y.rec.buf])
       IN /\ (~validates => ok)
          /\ ex' = [ex EXCEPT ![e] =
                      [y EXCEPT !.pc = "done",
                                !.steps = IF records THEN Append(@, "persist")
                                          ELSE @]]
          /\ task' = IF records
                     THEN [task EXCEPT ![e] =
                             [state |-> "pending",
                              status |-> y.rec.statusCode,
                              headers |-> RecorderHeader(y),
                              bodyKind |-> body.bodyKind,
                              buf |-> body.buf, len |-> body.len,
                              duration |-> clock - y.startTime]]
                     ELSE task
          /\ pool' = IF x.rec.on
                     THEN [pool EXCEPT ![x.listener] = @ \cup {x.rec.buf}]
                     ELSE pool
    /\ UNCHANGED <<cfg, rowOrder, tokens, refills, bufs, store, clock>>
    /\ UNCHANGED procVars /\ UNCHANGED dirVars

\* handleHTTPRequest after proxy.ServeHTTP has returned: response
\* validation on the recorder's buffer (ok is the validator's verdict), in
\* record mode the start of the persistence task, and the return of the
\* handler, whose deferred call puts the response buffer back in the pool.
Finish(e, ok) ==
    /\ Alive
    /\ \/ ex[e].pc = "finish"
       \/ ex[e].pc = "writing" /\ Len(ex[e].clientBody) = ex[e].respLen
    /\ LET x == ex[e]
           validates == cfg.ValidateResponses /\ x.rec.on /\ ~x.rec.streamMode
           y == IF validates
                THEN [x EXCEPT !.validatedLen = bufs[x.rec.buf].len,
                               !.respInvalid = ~ok,
                               !.steps = Append(@, "validate_response"),
                               !.rec.header =
                                   IF ok THEN @
                                   ELSE HeaderSet(RecorderHeader(x),
                                                  ValidationMarker("response"))]
                ELSE x
           records == cfg.RecordingMode /\ y.rec.on
           body == RecordedBody(y.rec, bufs[y.rec.buf])
       IN /\ (~validates => ok)
          /\ ex' = [ex EXCEPT ![e] =
                      [y EXCEPT !.pc = "done",
                                !.steps = IF records THEN Append(@, "persist")
                                          ELSE @]]
          /\ task' = IF records
                     THEN [task EXCEPT ![e] =
                             [state |-> "pending",
                              status |-> y.rec.statusCode,
                              headers |-> RecorderHeader(y),
                              bodyKind |-> body.bodyKind,
                              buf |-> body.buf, len |-> body.len,
                              duration |-> clock - y.startTime]]
                     ELSE task
          /\ pool' = IF x.rec.on
                     THEN [pool EXCEPT ![x.listener] = @ \cup {x.rec.buf}]
                     ELSE pool
    /\ UNCHANGED <<cfg, rowOrder, tokens, refills, bufs, store, clock>>
    /\ UNCHANGED procVars /\ UNCHANGED dirVars

\* The replay query with a mutation: ORDER BY timestamp ASC.
ReplayRowsOldest(x) ==
    LET hits == { i \in 1..Len(store) :
                    /\ store[i].protocol = "HTTP"
                    /\ store[i].method = x.req.Method
                    /\ store[i].url = x.req.Path }
    IN { i \in hits : \A j \in hits : store[i].timestamp <= store[j].timestamp }

\* The replay query with a mutation: the url is not compared.
ReplayRowsAnyURL(x) ==
    LET hits == { i \in 1..Len(store) :
                    /\ store[i].protocol = "HTTP"
                    /\ store[i].method = x.req.Method }
    IN { i \in hits : \A j \in hits : store[j].timestamp <= store[i].timestamp }

\* The rows the replay query selects for x: protocol HTTP, x's method and
\* URL, and among those the greatest timestamp.
ReplayRows(x) ==
    LET hits == { i \in 1..Len(store) :
                    /\ store[i].protocol = "HTTP"
                    /\ store[i].method = x.req.Method
                    /\ store[i].url = x.req.Path }
    IN { i \in hits : \A j \in hits : store[j].timestamp <= store[i].timestamp }

\* LIMIT 1: the one row the query returns.  Among rows of equal timestamp
\* the engine returns the one its scan meets first, which for a given
\* store is always the same one.
QueryRow(x) ==
    LET rows == ReplayRows(x)
    IN IF rowOrder = "first"
       THEN CHOOSE i \in rows : \A j \in rows : i <= j
       ELSE CHOOSE i \in rows : \A j \in rows : j <= i

\* The store lookup came back with an error.
QueryError == -1

\* replayHTTPTraffic with a mutation: after a miss the handler goes on to
\* the forwarder.
ReplayThenForward(e, i) ==
    /\ Alive
    /\ ex[e].pc = "replay"
    /\ i \in ReplayRows(ex[e]) \cup {0}
    /\ i = 0 <=> ReplayRows(ex[e]) = {}
    /\ LET x == [ex[e] EXCEPT !.replayed = TRUE, !.steps = Append(@, "lookup")]
       IN ex' = [ex EXCEPT ![e] =
                   IF i = 0 THEN [x EXCEPT !.pc = "forward"]
                   ELSE [x EXCEPT !.pc = "done", !.fromStore = TRUE,
                                  !.status = store[i].status,
                                  !.clientBody = store[i].body]]
    /\ UNCHANGED <<cfg, rowOrder, tokens, refills, bufs, pool, task, store, clock>>
    /\ UNCHANGED procVars /\ UNCHANGED dirVars

\* replayHTTPTraffic: the query fails (QueryError; always on a closed
\* store) and the answer is 500, or it finds no row and the answer is 404,
\* or it finds row i, whose headers, status and body go to the client.
Replay(e, i) ==
    /\ Alive
    /\ ex[e].pc = "replay"
    /\ (dbClosed => i = QueryError)
    /\ LET x == [ex[e] EXCEPT !.replayed = TRUE, !.steps = Append(@, "lookup")]
       IN IF i = QueryError
          THEN /\ ex' = [ex EXCEPT ![e] = Answer(x, StatusInternalServerError, "")]
          ELSE IF ReplayRows(x) = {}
               THEN /\ i = 0
                    /\ ex' = [ex EXCEPT ![e] = Answer(x, StatusNotFound, "")]
               ELSE /\ i = QueryRow(x)
                    /\ ex' = [ex EXCEPT ![e] =
                                [x EXCEPT !.pc = "done", !.fromStore = TRUE,
                                          !.row = i,
                                          !.wHeader = @ \cup store[i].headers,
                                          !.clientHeaders = x.wHeader
                                                              \cup store[i].headers,
                                          !.status = store[i].status,
                                          !.clientBody = store[i].body,
                                          !.steps = Append(x.steps, "write")]]
    /\ UNCHANGED <<cfg, rowOrder, tokens, refills, bufs, pool, task, store, clock>>
    /\ UNCHANGED procVars /\ UNCHANGED dirVars

\* The row the persistence task of e builds: the response body is read
\* through the slice the handler took, from whatever the buffer's array
\* holds now.
TaskRecord(e) ==
    [id |-> clock, timestamp |-> clock, protocol |-> "HTTP",
     method |-> ex[e].req.Method, url |-> ex[e].req.Path,
     status |-> task[e].status, headers |-> task[e].headers,
     body |-> IF task[e].bodyKind = "sentinel" THEN Sentinel(task[e].len)
              ELSE SubSeq(bufs[task[e].buf].arr, 1, task[e].len),
     duration |-> task[e].duration, owner |-> e]

\* The goroutine the handler starts: it builds the row and calls
\* saveTrafficRecord.  The insert fails on a closed statement; on an open
\* one it succeeds (inserted) or the store reports an error.  A failure is
\* logged.
Persist(e, inserted) ==
    /\ Alive
    /\ task[e].state = "pending"
    /\ clock' = clock + 1
    /\ (stmtClosed => ~inserted)
    /\ IF inserted
       THEN /\ store' = Append(store, TaskRecord(e))
            /\ task' = [task EXCEPT ![e].state = "saved"]
       ELSE /\ store' = store
            /\ task' = [task EXCEPT ![e].state = "failed"]
    /\ UNCHANGED <<cfg, rowOrder, tokens, refills, ex, bufs, pool>>
    /\ UNCHANGED procVars /\ UNCHANGED dirVars

\* ------------------------------------------------------ the proxy command

exVars == <<cfg, rowOrder, tokens, refills, ex, bufs, pool, task, store, clock>>

\* The listeners Run starts: HTTP always, HTTPS with TLS enabled.
Configured(l) == l = "http" \/ cfg.TLSEnabled

\* os.ReadFile of the client CA path, and AppendCertsFromPEM of what it read.
ReadFileOk(path) == path \in {"garbage.pem", "ca.pem"}
AppendCertsOk(path) == path = "ca.pem"

\* The ClientAuth StartHTTPSProxy leaves in the server's tls.Config:
\* verification is switched on only inside the branch that has read and
\* parsed the CA bundle; every other path leaves the zero value.
ServerClientAuth(c) ==
    IF c.ClientAuth /\ c.ClientCACert # ""
    THEN IF ~ReadFileOk(c.ClientCACert) THEN NoClientCert
         ELSE IF ~AppendCertsOk(c.ClientCACert) THEN NoClientCert
              ELSE RequireAndVerifyClientCert
    ELSE NoClientCert

\* The TLS handshake of the HTTPS server with a peer whose certificate
\* chain does (verified) or does not verify against the client CAs: with
\* RequireAndVerifyClientCert only a verified peer gets through.
Accepts(verified) ==
    /\ lst["https"] = "serving"
    /\ clientAuth = RequireAndVerifyClientCert => verified

\* A start-up goroutine of Run calls StartHTTPProxy or StartHTTPSProxy,
\* which builds the server and starts the goroutine that will serve.
StartProxy(l) ==
    /\ Alive
    /\ Configured(l)
    /\ starter[l].pc = "init"
    /\ starter' = [starter EXCEPT ![l].pc = "read"]
    /\ lst' = [lst EXCEPT ![l] = "starting"]
    /\ clientAuth' = IF l = "https" THEN ServerClientAuth(cfg) ELSE clientAuth
    /\ UNCHANGED <<servers, uiPc, mainPc, shut, deadline, stmtClosed, dbClosed>>
    /\ UNCHANGED exVars /\ UNCHANGED dirVars /\ UNCHANGED ctx

\* The serving goroutine: ListenAndServe (ListenAndServeTLS) returns at
\* once when Shutdown was already called on its server; else it binds the
\* port (and loads certificate and key) and serves, or, when that fails
\* (bound is false), returns the error, which the goroutine logs.
Listen(l, bound) ==
    /\ Alive
    /\ lst[l] = "starting"
    /\ lst' = [lst EXCEPT ![l] = IF shut[l] \in {"draining", "done"}
                                 THEN "closed"
                                 ELSE IF bound THEN "serving" ELSE "failed"]
    /\ UNCHANGED <<starter, servers, uiPc, mainPc, shut, deadline,
                   stmtClosed, dbClosed>>
    /\ UNCHANGED exVars /\ UNCHANGED dirVars /\ UNCHANGED sysVars

\* servers = append(servers, srv), first half: the slice is read.
AppendRead(l) ==
    /\ Alive
    /\ starter[l].pc = "read"
    /\ starter' = [starter EXCEPT ![l] = [pc |-> "write", seen |-> servers]]
    /\ UNCHANGED <<lst, servers, uiPc, mainPc, shut, deadline,
                   stmtClosed, dbClosed>>
    /\ UNCHANGED exVars /\ UNCHANGED dirVars /\ UNCHANGED sysVars

\* servers = append(servers, srv), second half: the slice read before,
\* with the server appended, is stored; the goroutine is done.
AppendWrite(l) ==
    /\ Alive
    /\ starter[l].pc = "write"
    /\ servers' = Append(starter[l].seen, l)
    /\ starter' = [starter EXCEPT ![l] = [pc |-> "done", seen |-> << >>]]
    /\ UNCHANGED <<lst, uiPc, mainPc, shut, deadline, stmtClosed, dbClosed>>
    /\ UNCHANGED exVars /\ UNCHANGED dirVars /\ UNCHANGED sysVars

\* The UI goroutine assigns uiServer and serves.
StartUI ==
    /\ Alive
    /\ uiPc = "init"
    /\ uiPc' = "serving"
    /\ UNCHANGED <<lst, starter, servers, mainPc, shut, deadline,
                   stmtClosed, dbClosed>>
    /\ UNCHANGED exVars /\ UNCHANGED dirVars /\ UNCHANGED sysVars

\* SIGINT arrives while Run waits.  A signal context is cancelled by it.
\* With --timeout the context is a timer, no handler is installed for the
\* signal, and the runtime ends the process at once.
Interrupt ==
    /\ mainPc = "wait"
    /\ ~ctx.sigint
    /\ IF ctx.kind = "signal"
       THEN /\ ctx' = [ctx EXCEPT !.done = TRUE, !.sigint = TRUE]
            /\ mainPc' = mainPc
       ELSE /\ ctx' = [ctx EXCEPT !.sigint = TRUE]
            /\ mainPc' = "exited"
    /\ UNCHANGED <<lst, starter, servers, uiPc, shut, deadline, stmtClosed,
                   dbClosed, clientAuth>>
    /\ UNCHANGED exVars /\ UNCHANGED dirVars

\* The minutes of --timeout have passed: the timer context is done.
TimerExpires ==
    /\ mainPc = "wait"
    /\ ctx.kind = "timer"
    /\ ~ctx.done
    /\ ctx' = [ctx EXCEPT !.done = TRUE]
    /\ UNCHANGED <<lst, starter, servers, uiPc, mainPc, shut, deadline,
                   stmtClosed, dbClosed, clientAuth>>
    /\ UNCHANGED exVars /\ UNCHANGED dirVars

\* <-ctx.Done() returns: Run starts a Shutdown goroutine for every server
\* in the servers slice as it is now, and one for the UI server if the
\* variable is set.
Trigger ==
    /\ mainPc = "wait"
    /\ ctx.done
    /\ mainPc' = "shutdown"
    /\ shut' = [s \in Listeners \cup {"ui"} |->
                  IF s = "ui"
                  THEN IF uiPc # "init" THEN "called" ELSE "no"
                  ELSE IF \E i \in 1..Len(servers) : servers[i] = s
                       THEN "called" ELSE "no"]
    /\ UNCHANGED <<lst, starter, servers, uiPc, deadline, stmtClosed, dbClosed>>
    /\ UNCHANGED exVars /\ UNCHANGED dirVars /\ UNCHANGED sysVars

\* srv.Shutdown begins: the listener is closed, no request is accepted.
ShutdownBegin(l) ==
    /\ Alive
    /\ shut[l] = "called"
    /\ shut' = [shut EXCEPT ![l] = "draining"]
    /\ lst' = [lst EXCEPT ![l] = IF @ = "serving" THEN "closed" ELSE @]
    /\ UNCHANGED <<starter, servers, uiPc, mainPc, deadline, stmtClosed, dbClosed>>
    /\ UNCHANGED exVars /\ UNCHANGED dirVars /\ UNCHANGED sysVars

\* srv.Shutdown returns: no handler of the listener is running, or the
\* deadline of shutdownCtx has passed.
ShutdownReturn(l) ==
    /\ Alive
    /\ shut[l] = "draining"
    /\ deadline \/ \A e \in Exchanges : ex[e].listener = l => ~InFlight(e)
    /\ shut' = [shut EXCEPT ![l] = "done"]
    /\ UNCHANGED <<lst, starter, servers, uiPc, mainPc, deadline,
                   stmtClosed, dbClosed>>
    /\ UNCHANGED exVars /\ UNCHANGED dirVars /\ UNCHANGED sysVars

\* uiServer.Shutdown: the UI server stops and its goroutine returns.
ShutdownUI ==
    /\ Alive
    /\ shut["ui"] = "called"
    /\ shut' = [shut EXCEPT !["ui"] = "done"]
    /\ uiPc' = "done"
    /\ UNCHANGED <<lst, starter, servers, mainPc, deadline, stmtClosed, dbClosed>>
    /\ UNCHANGED exVars /\ UNCHANGED dirVars /\ UNCHANGED sysVars

\* The 30 s of shutdownCtx pass.
DeadlineExpires ==
    /\ mainPc = "shutdown"
    /\ ~deadline
    /\ deadline' = TRUE
    /\ UNCHANGED <<lst, starter, servers, uiPc, mainPc, shut, stmtClosed, dbClosed>>
    /\ UNCHANGED exVars /\ UNCHANGED dirVars /\ UNCHANGED sysVars

\* shutdownWg.Wait() and wg.Wait() return, Run returns and its deferred
\* calls close the prepared statement and the store.
CloseStore ==
    /\ mainPc = "shutdown"
    /\ \A s \in Listeners \cup {"ui"} : shut[s] \in {"no", "done"}
    /\ \A l \in Listeners : Configured(l) => starter[l].pc = "done"
    /\ uiPc = "done"
    /\ mainPc' = "closed"
    /\ stmtClosed' = TRUE
    /\ dbClosed' = TRUE
    /\ UNCHANGED <<lst, starter, servers, uiPc, shut, deadline>>
    /\ UNCHANGED exVars /\ UNCHANGED dirVars /\ UNCHANGED sysVars

\* The command returns to main and the process exits: every goroutine
\* that is still running ends with it.
Exit ==
    /\ mainPc = "closed"
    /\ mainPc' = "exited"
    /\ UNCHANGED <<lst, starter, servers, uiPc, shut, deadline, stmtClosed, dbClosed>>
    /\ UNCHANGED exVars /\ UNCHANGED dirVars /\ UNCHANGED sysVars

\* -------------------------------------------------- router and director

\* The router applied to the request's path.
Resolve ==
    /\ ~dout.resolved
    /\ dout' = [dout EXCEPT !.resolved = TRUE,
                            !.target = GetTargetURL(cfg, dreq.Path)]
    /\ UNCHANGED <<cfg, rowOrder, tokens, refills, ex, bufs, pool, task, store, clock,
                   dreq, norm, gen>>
    /\ UNCHANGED procVars

\* The director applied to the request.
Direct ==
    /\ ~dout.directed
    /\ dout' = [dout EXCEPT !.directed = TRUE, !.req = Director(cfg, dreq)]
    /\ UNCHANGED <<cfg, rowOrder, tokens, refills, ex, bufs, pool, task, store, clock,
                   dreq, norm, gen>>
    /\ UNCHANGED procVars

\* Sequences over S of length at most n.
SeqsUpTo(S, n) == UNION { [1..k -> S] : k \in 0..n }

\* Route prefixes validateConfig accepts: not empty, starting with "/".
DirPrefixes == { <<"/">>, <<"/", "a">>, <<"/", "a", "a">> }
\* Upstream URLs of routes: one with a path and a query of its own, one
\* that url.Parse rejects.
RouteURLs == { <<"http", "://", "u1", "/", "x", "?", "q">>,
               <<"http", "://", CtlChar>> }
\* Default upstreams: a well-formed one, and one without a scheme.
DefaultURLs == { <<"https", "://", "u2">>, <<"u3">> }

DirConfigs ==
    { c \in [RecordingMode : {FALSE}, ReplayMode : {FALSE},
             TLSEnabled : {TRUE}, ValidateRequests : {FALSE},
             ValidateResponses : {FALSE}, ContinueOnValidation : {FALSE},
             TargetRoutes : SeqsUpTo([PathPrefix : DirPrefixes,
                                      TargetURL : RouteURLs], MaxRoutes),
             HTTPTargetURL : DefaultURLs] : TRUE }

\* Request paths: "/" and up to MaxPathLen - 1 more characters.
DirPaths ==
    { <<"/">> \o t : t \in SeqsUpTo({"/", "a"}, MaxPathLen - 1) }

\* Inbound requests: the peer address is the server's, host:port.
DirRequests ==
    { InboundRequest(p, q, <<"proxy">>, <<"peer">>, tls, xff) :
        p \in DirPaths, q \in {NoString, <<"k">>}, tls \in BOOLEAN,
        xff \in {NoString, <<"client">>} }

InitDirector ==
    /\ cfg \in DirConfigs
    /\ dreq \in DirRequests
    /\ dout = NoResult
    /\ norm = NormIdle
    /\ gen = GenIdle
    /\ store = << >>
    /\ ExchangeInit
    /\ ProcServing

NextDirector == Resolve \/ Direct

SpecDirector == InitDirector /\ [][NextDirector]_vars

\* ------------------------------------------------- path normalizer runs

\* strings.Join(parts, "/")
RECURSIVE Join(_)
Join(parts) ==
    IF Len(parts) = 0 THEN NoString
    ELSE IF Len(parts) = 1 THEN parts[1]
    ELSE parts[1] \o <<"/">> \o Join(Tail(parts))

\* The request path whose i-th segment is replaced by s; the path itself
\* when it has no i-th segment.
Substituted(path, i, s) ==
    LET parts == Split(TrimPrefix(path, <<"/">>), "/") IN
    IF i \in 1..Len(parts) THEN <<"/">> \o Join([parts EXCEPT ![i] = s])
    ELSE path

\* The orders in which range can visit the keys of a map with key set S.
Orders(S) ==
    { o \in [1..Cardinality(S) -> S] : \A t \in S : \E i \in DOMAIN o : o[i] = t }

\* One call of NormalizePathForSpec, on the request path or on the path
\* with one segment replaced; the runtime chooses the order of iteration.
Normalize(path, order) ==
    /\ Len(norm.calls) < MaxCalls
    /\ norm' = [norm EXCEPT !.calls =
                   Append(@, [path |-> path,
                              res |-> NormalizePathForSpec(path, order)])]
    /\ UNCHANGED <<cfg, rowOrder, tokens, refills, ex, bufs, pool, task, store, clock,
                   dreq, dout, gen>>
    /\ UNCHANGED procVars

\* Templates of an OpenAPI document: literal segments and parameters.
NormTemplates ==
    { <<"/", "a">>,
      <<"/", "a", "/", "{", "i", "}">>,
      <<"/", "a", "/", "b">>,
      <<"/", "{", "i", "}", "/", "b">> }

\* Request paths: "/" and up to MaxNormLen - 1 more characters.
NormPaths ==
    { <<"/">> \o t : t \in SeqsUpTo({"/", "a", "b"}, MaxNormLen - 1) }

\* Strings without "/": empty, a letter, letters, a braced name.
NoSlashStrings == { NoString, <<"b">>, <<"a", "b">>, <<"{", "i", "}">> }

InitNormalize ==
    /\ cfg \in { c \in Configs : ~c.RecordingMode /\ ~c.ReplayMode /\ ~c.TLSEnabled
                                 /\ ~c.ValidateRequests /\ ~c.ValidateResponses }
    /\ store = << >>
    /\ ExchangeInit
    /\ ProcServing
    /\ dreq = NoRequest
    /\ dout = NoResult
    /\ gen = GenIdle
    /\ \E p \in NormPaths, T \in SUBSET NormTemplates, i \in 1..2,
          s \in NoSlashStrings :
          norm = [path |-> p, specPaths |-> T, at |-> i, with |-> s,
                  calls |-> << >>]

NextNormalize ==
    \E p \in {norm.path, Substituted(norm.path, norm.at, norm.with)},
       o \in Orders(norm.specPaths) : Normalize(p, o)

SpecNormalize == InitNormalize /\ [][NextNormalize]_vars

\* ------------------------------------------------------------ generateID

\* fmt.Sprintf("%d-%x", id, hex.EncodeToString(buf)): the decimal
\* counter, a dash, and the hexadecimal digits of buf encoded once more;
\* two results are equal exactly when counter and bytes are.
FormatID(id, buf) == <<id, "-", buf>>

\* id := atomic.AddUint64(&idCounter, 1) of call k, on the idCounter of
\* that call, which is far from its 64-bit limit.
AddCounter(k) ==
    /\ gen[k].pc = "idle"
    /\ gen' = [gen EXCEPT ![k].pc = "counted",
                          ![k].idCounter = @ + 1,
                          ![k].id = gen[k].idCounter + 1]
    /\ UNCHANGED <<cfg, rowOrder, tokens, refills, ex, bufs, pool, task, store, clock,
                   dreq, dout, norm>>
    /\ UNCHANGED procVars

\* rand.Read(buf) of call k: four bytes of the system's random source.
ReadRandom(k, bytes) ==
    /\ gen[k].pc = "counted"
    /\ gen' = [gen EXCEPT ![k].pc = "returned", ![k].buf = bytes]
    /\ UNCHANGED <<cfg, rowOrder, tokens, refills, ex, bufs, pool, task, store, clock,
                   dreq, dout, norm>>
    /\ UNCHANGED procVars

\* The value call k of generateID has returned.
generateID(k) == FormatID(gen[k].id, gen[k].buf)

InitIds ==
    /\ cfg \in { c \in RecordConfigs : ~c.ValidateRequests /\ ~c.ValidateResponses }
    /\ store = << >>
    /\ ExchangeInit
    /\ ProcServing
    /\ DirIdle

NextIds ==
    \/ \E k \in IdCalls : AddCounter(k)
    \/ \E k \in IdCalls, bytes \in 1..NumRandom : ReadRandom(k, bytes)

SpecIds == InitIds /\ [][NextIds]_vars

\* ----------------------------------------------------------- specification

\* The gate: requests arrive and time passes.
GateNext(reqs) ==
    \/ \E e \in 1..NumExchanges, l \in Listeners, r \in reqs : Admit(e, l, r)
    \/ \E l \in Listeners : Refill(l)

\* The handler of an admitted request that is not replayed.
HandlerNext(lens) ==
    \/ \E e \in Exchanges, ok \in BOOLEAN, b \in BufIds \cup {0} :
          HandleRequest(e, ok, b)
    \/ \E e \in Exchanges, o \in Outcomes :
          \E len \in (IF o = TransportError THEN {0} ELSE lens) :
              Forward(e, o, len)
    \/ \E e \in Exchanges : WriteChunk(e)
    \/ \E e \in Exchanges, ok \in BOOLEAN : Finish(e, ok)

ReplayNext == \E e \in Exchanges, i \in QueryError..Len(store) : Replay(e, i)

PersistNext == \E e \in Exchanges, ins \in BOOLEAN : Persist(e, ins)

ProcNext ==
    \/ \E l \in Listeners : StartProxy(l)
    \/ \E l \in Listeners, bound \in BOOLEAN : Listen(l, bound)
    \/ \E l \in Listeners : AppendRead(l)
    \/ \E l \in Listeners : AppendWrite(l)
    \/ StartUI
    \/ Interrupt
    \/ Trigger
    \/ \E l \in Listeners : ShutdownBegin(l)
    \/ \E l \in Listeners : ShutdownReturn(l)
    \/ ShutdownUI
    \/ DeadlineExpires
    \/ CloseStore
    \/ Exit

\* The serving proxy in any configuration, with one-chunk responses.
Next ==
    \/ GateNext(Requests)
    \/ HandlerNext({ChunkLen})
    \/ ReplayNext
    \/ PersistNext

Spec == Init /\ [][Next]_vars

\* The serving proxy in any configuration, with requests at and above
\* the size limit.
NextLimit ==
    \/ GateNext(LimitRequests)
    \/ HandlerNext({ChunkLen})
    \/ ReplayNext
    \/ PersistNext

SpecLimit == Init /\ [][NextLimit]_vars

\* The replaying proxy on a store of earlier runs.
InitReplay ==
    /\ cfg \in ReplayConfigs
    /\ store \in ReplayStores
    /\ rowOrder \in {"first", "last"}
    /\ ExchangesIdle
    /\ ProcServing
    /\ DirIdle

NextReplay ==
    \/ \E e \in 1..ReplayExchanges, l \in Listeners, r \in ReplayRequests :
          Admit(e, l, r)
    \/ \E l \in Listeners : Refill(l)
    \/ \E e \in Exchanges, ok \in BOOLEAN, b \in BufIds \cup {0} :
          HandleRequest(e, ok, b)
    \/ ReplayNext

SpecReplay == InitReplay /\ [][NextReplay]_vars

\* The forwarding proxy with upstreams that parse, that do not parse and
\* that are empty.
InitUpstream ==
    /\ cfg \in UpstreamConfigs
    /\ store = << >>
    /\ ExchangeInit
    /\ ProcServing
    /\ DirIdle

NextUpstream ==
    \/ GateNext(UpstreamRequests)
    \/ HandlerNext({ChunkLen})
    \/ PersistNext

SpecUpstream == InitUpstream /\ [][NextUpstream]_vars

\* The proxy command alone, from its start to the exit of the process:
\* with and without TLS and client authentication, with and without
\* --timeout.
InitStart ==
    /\ cfg \in StartConfigs
    /\ store = << >>
    /\ ExchangeInit
    /\ ProcStart
    /\ ctx \in {SignalContext, TimeoutContext}
    /\ DirIdle

NextStart == ProcNext \/ TimerExpires

SpecStart == InitStart /\ [][NextStart]_vars

\* The proxy command is run again on the store of a recording run, this
\* time in replay mode: the recording process has answered its requests
\* and its persistence tasks have ended; the new process has limiters and
\* buffer pools of its own.
Restart ==
    /\ cfg.RecordingMode
    /\ \A e \in Exchanges : ex[e].pc \in {"idle", "done"}
    /\ \A e \in Exchanges : task[e].state # "pending"
    /\ cfg' = [cfg EXCEPT !.RecordingMode = FALSE, !.ReplayMode = TRUE]
    /\ tokens' = [l \in Listeners |-> RateBurst]
    /\ bufs' = [b \in BufIds |-> [arr |-> << >>, len |-> 0, fresh |-> TRUE]]
    /\ pool' = [l \in Listeners |-> {}]
    /\ UNCHANGED <<rowOrder, refills, ex, task, store, clock>>
    /\ UNCHANGED procVars /\ UNCHANGED dirVars

\* A recording run on the HTTP listener, with and without validation,
\* followed by a replay run on its store.
InitRoundTrip ==
    /\ cfg \in { c \in Configs : c.RecordingMode /\ ~c.TLSEnabled }
    /\ store = << >>
    /\ ExchangeInit
    /\ ProcServing
    /\ DirIdle

NextRoundTrip ==
    \/ GateNext(RecordRequests)
    \/ HandlerNext({ChunkLen})
    \/ PersistNext
    \/ Restart
    \/ ReplayNext

SpecRoundTrip == InitRoundTrip /\ [][NextRoundTrip]_vars

\* The forwarding proxy with response validation, recording or not, with
\* requests below and above the stream threshold and responses of every
\* length.
InitValidate ==
    /\ cfg \in { c \in Configs : /\ c.ValidateResponses /\ ~c.ReplayMode
                                 /\ ~c.ValidateRequests /\ ~c.TLSEnabled }
    /\ store = << >>
    /\ ExchangeInit
    /\ ProcServing
    /\ DirIdle

NextValidate ==
    \/ GateNext(RecordRequests)
    \/ HandlerNext(Responses)
    \/ PersistNext

SpecValidate == InitValidate /\ [][NextValidate]_vars

\* The recording proxy with responses of every length.
InitRecord ==
    /\ cfg \in RecordConfigs
    /\ store = << >>
    /\ ExchangeInit
    /\ ProcServing
    /\ DirIdle

NextRecord ==
    \/ GateNext(RecordRequests)
    \/ HandlerNext(Responses)
    \/ PersistNext

SpecRecord == InitRecord /\ [][NextRecord]_vars

\* The proxy command from its start to the exit of the process, recording
\* on the HTTP listener.
InitShutdown ==
    /\ cfg \in { c \in RecordConfigs : ~c.TLSEnabled }
    /\ store = << >>
    /\ ExchangeInit
    /\ ProcInit
    /\ DirIdle

NextShutdown ==
    \/ GateNext({Request("GET", <<"/", "a">>, 0)})
    \/ HandlerNext({ChunkLen})
    \/ PersistNext
    \/ ProcNext

SpecShutdown == InitShutdown /\ [][NextShutdown]_vars

\* ------------------------------------------------------------------ claims

\* The routes whose prefix is a prefix of the request path.
Hits ==
    { i \in 1..Len(cfg.TargetRoutes) :
        HasPrefix(dreq.Path, cfg.TargetRoutes[i].PathPrefix) }

Forwarded ==
    dout.directed /\ dout.req.rewritten /\ dout.req.Scheme # NoString

\* The upstream the router resolves for the request.
Upstream == GetTargetURL(cfg, dreq.Path)

C1_ModeExclusivity ==
    \A e \in Exchanges :
        /\ ~(ex[e].upstream /\ ex[e].replayed)
        /\ cfg.ReplayMode => ~ex[e].upstream

\* In replay mode one exchange was answered from the store and another
\* one, whose lookup found nothing, was answered 404.
C1_Witness ==
    /\ cfg.ReplayMode
    /\ \E e, d \in Exchanges :
          /\ ex[e].pc = "done" /\ ex[e].fromStore
          /\ ex[d].pc = "done" /\ ex[d].replayed
          /\ ex[d].status = StatusNotFound

\* The steps of the handler that come after admission.
Touched(e) ==
    \/ Len(ex[e].steps) > 1
    \/ ex[e].upstream \/ ex[e].replayed
    \/ ex[e].rec.on
    \/ task[e].state # "none"

Admitted == { e \in Exchanges : ex[e].pc # "idle" /\ ~ex[e].denied }

\* C7: the two listeners draw from one bucket: without a refill at most
\* RateBurst requests are admitted in total.
C7_OneBucket ==
    refills = 0 => Cardinality(Admitted) <= RateBurst

\* The row the store holds for an exchange is what its task was handed.
RowsOf(e) == { i \in 1..Len(store) : store[i].owner = e }

\* C3: in record mode the response body inserted for an exchange with a
\* response below the watermark is the byte sequence its client received,
\* whatever the other exchanges do meanwhile.  (Stated for exchanges whose
\* recorder buffers, those with a request body below the watermark.)
C3_BodyIsWhatClientSaw ==
    \A e \in Exchanges : \A i \in RowsOf(e) :
        (ex[e].respLen < streamThreshold /\ ~ex[e].rec.streamMode)
            => store[i].body = ex[e].clientBody

\* C4: in record mode the response body persisted for an exchange with a
\* response above the watermark is the sentinel, and the client has
\* received every byte.
C4_SentinelAboveWatermark ==
    \A e \in Exchanges : \A i \in RowsOf(e) :
        ex[e].respLen > streamThreshold =>
            /\ IsSentinel(store[i].body)
            /\ Len(ex[e].clientBody) = ex[e].respLen

\* A persistence task that has not yet called the insert.
Pending == { e \in Exchanges : task[e].state = "pending" }

\* C5: the statement and the store are closed only when no persistence
\* task is pending or the deadline has passed, and before the deadline no
\* task runs its insert on a closed statement.
C5_CloseAfterTasks ==
    [][/\ (~stmtClosed /\ stmtClosed') => (deadline \/ Pending = {})
       /\ \A e \in Exchanges :
             (e \in Pending /\ task'[e].state # "pending" /\ stmtClosed)
                => deadline]_vars

\* An exchange of the recording proxy that reached the forwarder and whose
\* status was sent to the client.
Recordable(e) ==
    /\ cfg.RecordingMode
    /\ ex[e].pc = "done"
    /\ \E k \in 1..Len(ex[e].steps) : ex[e].steps[k] = "forward"

\* C2: for every such exchange a persistence task is started, and when
\* the run is over the task has inserted exactly one record with the
\* exchange's status and headers and a duration that is not negative, or
\* has logged a failure.
C2_RecordingCompleteness ==
    \A e \in Exchanges :
        Recordable(e) =>
            /\ task[e].state # "none"
            /\ mainPc = "exited" => task[e].state \in {"saved", "failed"}
            /\ task[e].state = "saved" =>
                  /\ Cardinality(RowsOf(e)) = 1
                  /\ \A i \in RowsOf(e) :
                        /\ store[i].status = ex[e].status
                        /\ store[i].headers = ex[e].clientHeaders
                        /\ store[i].duration >= 0
            /\ task[e].state # "saved" => RowsOf(e) = {}

\* The handler of e ran step s.
Ran(e, s) == \E k \in 1..Len(ex[e].steps) : ex[e].steps[k] = s

\* C11: with request validation on and continue_on_fail off, an exchange
\* whose request failed validation is answered 400 and, in every mode, is
\* not forwarded, not looked up in the store and not persisted.
C11_InvalidRequestStops ==
    \A e \in Exchanges :
        (ex[e].reqInvalid /\ ~cfg.ContinueOnValidation) =>
            /\ ex[e].pc = "done"
            /\ ex[e].status = StatusBadRequest
            /\ ~ex[e].upstream /\ ~Ran(e, "forward")
            /\ ~ex[e].replayed /\ ~Ran(e, "lookup")
            /\ ~ex[e].rec.on
            /\ task[e].state = "none" /\ RowsOf(e) = {}

\* The recording proxy has answered 400 to a request that failed
\* validation and has persisted another exchange, whose request passed.
C11_Witness ==
    /\ cfg.RecordingMode /\ cfg.ValidateRequests /\ ~cfg.ContinueOnValidation
    /\ \E e, d \in Exchanges :
          /\ ex[e].reqInvalid /\ ex[e].status = StatusBadRequest
          /\ Ran(d, "validate_request") /\ ~ex[d].reqInvalid
          /\ RowsOf(d) # {}

\* C12: the record persisted for an exchange that went on after a failed
\* validation carries the marker header of the phase that failed: request
\* for the request phase, response for the response phase.
C12_RecordNamesFailedPhase ==
    \A e \in Exchanges : \A i \in RowsOf(e) :
        /\ ex[e].reqInvalid => ValidationMarker("request") \in store[i].headers
        /\ ex[e].respInvalid => ValidationMarker("response") \in store[i].headers

\* C13: a request whose body is above maxRequestSize, declared or chunked,
\* is answered 413 and is neither captured nor forwarded, and no request
\* body reaches an upstream shorter than the client sent it.
C13_OversizedRejected ==
    \A e \in Exchanges :
        /\ (ex[e].req.BodyLen > maxRequestSize /\ ~ex[e].denied
               /\ ex[e].pc = "done") =>
              /\ ex[e].status = StatusRequestEntityTooLarge
              /\ ex[e].captured = -1
              /\ ~ex[e].upstream
        /\ ex[e].upstream => ex[e].upBody = ex[e].req.BodyLen

\* The rows stored under the method and url of e's request.
Matching(e) ==
    { i \in 1..Len(store) :
        /\ store[i].protocol = "HTTP"
        /\ store[i].method = ex[e].req.Method
        /\ store[i].url = ex[e].req.Path }

\* The replayer has answered e and its query did not fail.
Looked(e) ==
    /\ ex[e].replayed /\ ex[e].pc = "done"
    /\ ex[e].fromStore \/ ex[e].status # StatusInternalServerError

\* C14: in replay mode a request is answered with the status and body of
\* a row that has the greatest timestamp among the rows with protocol
\* HTTP and the request's method and url, and with 404 and the body of
\* the no-match error (ErrorBody(404)) when there is no such row.
C14_ReplayNewest ==
    cfg.ReplayMode =>
        \A e \in Exchanges :
            Looked(e) =>
                IF Matching(e) = {}
                THEN /\ ~ex[e].fromStore
                     /\ ex[e].status = StatusNotFound
                     /\ ex[e].clientBody = ErrorBody(StatusNotFound)
                ELSE \E i \in Matching(e) :
                        /\ \A j \in Matching(e) :
                              store[j].timestamp <= store[i].timestamp
                        /\ ex[e].fromStore
                        /\ ex[e].status = store[i].status
                        /\ ex[e].clientBody = store[i].body

\* The store holds two rows of one key, the newer one inserted first and
\* with another response; a request for that key was answered with the
\* newer row and a request for another url with 404.
C14_Witness ==
    /\ cfg.ReplayMode /\ Len(store) = 2
    /\ store[1].timestamp > store[2].timestamp
    /\ store[1].status # store[2].status
    /\ \E e, d \in Exchanges :
          /\ Looked(e) /\ Matching(e) = {1, 2}
          /\ ex[e].status = store[1].status /\ ex[e].clientBody = store[1].body
          /\ Looked(d) /\ Matching(d) = {} /\ ex[d].status = StatusNotFound

BadUpstream(e) ==
    LET target == GetTargetURL(cfg, ex[e].req.Path)
    IN ~ParseURL(target).ok \/ target = NoString

\* C16: an exchange whose resolved upstream does not parse or is empty is
\* answered 502 and no record of it is persisted, in record mode as well.
C16_BadUpstreamNotRecorded ==
    \A e \in Exchanges :
        (BadUpstream(e) /\ Ran(e, "forward")) =>
            /\ ex[e].status = StatusBadGateway
            /\ task[e].state = "none"
            /\ RowsOf(e) = {}

\* C17: when the shutdown trigger fires, Shutdown is called on every
\* listener Run has started, however the goroutines that start and append
\* the listeners interleave.  (Stated for the listeners whose start-up
\* goroutine has finished its append when the trigger fires.)
C17_ShutdownEveryListener ==
    [][(mainPc = "wait" /\ mainPc' = "shutdown") =>
          \A l \in Listeners :
              (Configured(l) /\ starter[l].pc = "done") => shut'[l] = "called"]_vars

\* C18: a process that received SIGINT while serving exits only through
\* the shutdown routine, with the statement and the store closed, with
\* --timeout as well.
C18_InterruptShutsDown ==
    (ctx.sigint /\ mainPc = "exited") => (stmtClosed /\ dbClosed)

\* C19: there is no state in which a configured listener has failed to
\* bind (or to load its certificate and key) and the process goes on
\* waiting with its start-up finished and the UI serving.
C19_BindFailureAborts ==
    \A l \in Listeners :
        lst[l] = "failed" =>
            ~(/\ mainPc = "wait"
              /\ \A k \in Listeners : Configured(k) => starter[k].pc = "done"
              /\ uiPc = "serving")

\* C20: with client_auth set, a serving TLS listener accepts no peer
\* without a verified certificate, whatever the client CA path is.
C20_ClientAuthEnforced ==
    (cfg.ClientAuth /\ lst["https"] = "serving") => ~Accepts(FALSE)

\* The segments of a path or of a template: what lies between its "/",
\* the leading "/" aside.
Segments(s) == Split(TrimPrefix(s, <<"/">>), "/")

\* A segment wrapped in braces.
Wrapped(seg) == Len(seg) >= 2 /\ seg[1] = "{" /\ seg[Len(seg)] = "}"

\* Template t has as many segments as path p, and each of its segments
\* that is not wrapped in braces equals the segment of p at its position.
Fits(t, p) ==
    /\ Len(Segments(t)) = Len(Segments(p))
    /\ \A i \in 1..Len(Segments(t)) :
          Wrapped(Segments(t)[i]) \/ Segments(t)[i] = Segments(p)[i]

\* C21: NormalizePathForSpec(p, T) returns (t, true) only for a template t
\* of T that has as many segments as p and whose segments outside braces
\* equal those of p; it returns ("", false) exactly when T holds no such
\* template; and when p matched a template, the path with the segment at
\* one of that template's parameter positions replaced by a string without
\* "/" still matches it and is still answered with a match.
C21_NormalizeContract ==
    /\ \A k \in 1..Len(norm.calls) :
          LET p == norm.calls[k].path
              r == norm.calls[k].res
          IN /\ r.matched => r.specPath \in norm.specPaths /\ Fits(r.specPath, p)
             /\ ~r.matched => r.specPath = NoString
             /\ ~r.matched <=> ~\E t \in norm.specPaths : Fits(t, p)
    /\ \A j, k \in 1..Len(norm.calls) :
          LET a == norm.calls[j]
              b == norm.calls[k]
          IN (/\ a.path = norm.path
              /\ a.res.matched
              /\ norm.at \in 1..Len(Segments(a.res.specPath))
              /\ Wrapped(Segments(a.res.specPath)[norm.at])
              /\ b.path = Substituted(norm.path, norm.at, norm.with))
             => b.res.matched /\ Fits(a.res.specPath, b.path)

\* A path matched a template with a parameter, and the path with another
\* string at the parameter's position was normalized as well.
C21_Witness ==
    /\ Len(norm.calls) = 2
    /\ norm.calls[1].path = norm.path
    /\ norm.calls[1].res.matched
    /\ norm.at \in 1..Len(Segments(norm.calls[1].res.specPath))
    /\ Wrapped(Segments(norm.calls[1].res.specPath)[norm.at])
    /\ norm.calls[2].path = Substituted(norm.path, norm.at, norm.with)
    /\ norm.calls[2].path # norm.path
    /\ norm.calls[2].res.matched

\* C30: two calls of NormalizePathForSpec on the same path and the same
\* set of templates return the same template.
C30_NormalizeDeterministic ==
    \A j, k \in 1..Len(norm.calls) :
        norm.calls[j].path = norm.calls[k].path
            => norm.calls[j].res = norm.calls[k].res

\* C22: in passthrough mode (neither record nor replay) no exchange starts
\* a persistence task and the store stays empty, also when response
\* validation interposes the recorder.
C22_PassthroughWritesNothing ==
    (~cfg.RecordingMode /\ ~cfg.ReplayMode)
        => /\ store = << >>
           /\ \A e \in Exchanges : task[e] = NoTask

\* A passthrough exchange went through the recorder to the upstream, had
\* its response validated and has returned.
C22_Witness ==
    /\ ~cfg.RecordingMode /\ ~cfg.ReplayMode /\ cfg.ValidateResponses
    /\ \E e \in Exchanges :
          /\ ex[e].pc = "done"
          /\ ex[e].rec.on
          /\ ex[e].upstream
          /\ Ran(e, "validate_response")
          /\ Len(ex[e].clientBody) > 0

\* The steps of an exchange in the order they are to occur in.
StepOrder ==
    <<"admission", "capture", "validate_request", "forward",
      "validate_response", "write", "persist">>

\* C23: within one exchange the steps occur in the order admission,
\* request capture, request validation, forward, response validation, write
\* to client, start of the persistence task: whenever two of them have
\* occurred, the one named earlier occurred earlier.
C23_StepsInOrder ==
    \A e \in Exchanges :
        \A i, j \in 1..Len(StepOrder) :
            i < j =>
                \A a, b \in 1..Len(ex[e].steps) :
                    (ex[e].steps[a] = StepOrder[i] /\ ex[e].steps[b] = StepOrder[j])
                        => a < b

\* C24: calls of generateID that have returned, successive or concurrent,
\* have returned different values.
C24_IdsDiffer ==
    \A j, k \in IdCalls :
        (j # k /\ gen[j].pc = "returned" /\ gen[k].pc = "returned")
            => generateID(j) # generateID(k)

\* C25: the timestamp of a persisted record is the time its request was
\* received, and of two records the one whose request was received first
\* has the timestamp that is not the later one, however the persistence
\* tasks interleave.
C25_TimestampIsReceipt ==
    /\ \A i \in 1..Len(store) :
          store[i].owner \in Exchanges
              => store[i].timestamp = ex[store[i].owner].startTime
    /\ \A i, j \in 1..Len(store) :
          (/\ store[i].owner \in Exchanges
           /\ store[j].owner \in Exchanges
           /\ ex[store[i].owner].startTime < ex[store[j].owner].startTime)
              => store[i].timestamp <= store[j].timestamp

\* Row i is the only record of its method and URL.
OnlyRecord(i) ==
    \A j \in 1..Len(store) :
        (store[j].method = store[i].method /\ store[j].url = store[i].url)
            => j = i

\* C26: when a replay run answers a request from the record of an exchange
\* of the recording run whose response was below the watermark, and the
\* store holds no other record of that method and URL, the client gets the
\* status, the body and the headers the client of the recorded exchange
\* got.
C26_RoundTrip ==
    \A r \in Exchanges :
        (ex[r].pc = "done" /\ ex[r].fromStore) =>
            LET i == ex[r].row
                e == store[i].owner
            IN (/\ e \in Exchanges
                /\ ex[e].respLen < streamThreshold
                /\ OnlyRecord(i))
               => /\ ex[r].status = ex[e].status
                  /\ ex[r].clientBody = ex[e].clientBody
                  /\ ex[r].clientHeaders = ex[e].clientHeaders

\* C27: response validation is applied to the complete response body only:
\* whenever the validator has run on an exchange's response, and whenever a
\* response marker was derived from its verdict, what it was given is as
\* long as the body the upstream sent.
C27_ValidatesCompleteBody ==
    \A e \in Exchanges :
        ex[e].pc = "done" =>
            /\ Ran(e, "validate_response") => ex[e].validatedLen = ex[e].respLen
            /\ ex[e].respInvalid => ex[e].validatedLen = ex[e].respLen

\* C28: an exchange whose response is below the watermark has its complete
\* response body validated when response validation is on and handed to
\* the persistence task when recording is on, whatever the size of its
\* request body.
C28_ResponseCaptureIgnoresRequestSize ==
    \A e \in Exchanges :
        (/\ ex[e].pc = "done"
         /\ ex[e].rec.on
         /\ ex[e].upstream
         /\ ex[e].respLen < streamThreshold)
            => /\ cfg.ValidateResponses => ex[e].validatedLen = ex[e].respLen
               /\ cfg.RecordingMode =>
                     (task[e].bodyKind = "slice" /\ task[e].len = ex[e].respLen)

\* C29: after the shutdown trigger the proxy command terminates: once the
\* context is done, the process cannot come to rest anywhere but at its
\* exit, whichever way the start-up goroutines interleaved with the
\* trigger.
C29_ShutdownTerminates ==
    (ctx.done /\ ~ENABLED NextStart) => mainPc = "exited"

====
